---- MODULE Spec2Model ----
(***************************************************************************)
(* A model of src/middleware/oas-router.js: the OASRouter middleware that  *)
(* resolves a controller and an operation id for a request, installs the   *)
(* res.send interceptor, and checks the controller's response against the  *)
(* oasDoc (checkResponse).                                                  *)
(*                                                                          *)
(* JavaScript strings are sequences of one-character strings, so that      *)
(* split, charAt, slice, substring, toUpperCase and + are computed as the  *)
(* code computes them.  JavaScript values are records tagged by field t.   *)
(***************************************************************************)
EXTENDS Integers, Sequences, FiniteSets, TLC

(***************************************************************************)
(* Bounds of the model.                                                     *)
(***************************************************************************)
\* number of requests that can be in flight at the same time
NumReqs == 1
\* longest list of errors the validator reports
MaxErrs == 1

(***************************************************************************)
(* String primitives of the language.                                       *)
(***************************************************************************)
LowerCaseLetters == <<"a", "b", "c", "d", "e", "f", "g", "h", "i", "j", "k", "l", "m", "n", "o", "p", "q", "r", "s", "t", "u", "v", "w", "x", "y", "z">>
UpperCaseLetters == <<"A", "B", "C", "D", "E", "F", "G", "H", "I", "J", "K", "L", "M", "N", "O", "P", "Q", "R", "S", "T", "U", "V", "W", "X", "Y", "Z">>
Digits == <<"0", "1", "2", "3", "4", "5", "6", "7", "8", "9">>

\* String.prototype.toUpperCase, one character
upperChar(c) ==
  IF \E i \in 1..26 : LowerCaseLetters[i] = c
    THEN UpperCaseLetters[CHOOSE i \in 1..26 : LowerCaseLetters[i] = c]
    ELSE c

\* String.prototype.toLowerCase, one character
lowerChar(c) ==
  IF \E i \in 1..26 : UpperCaseLetters[i] = c
    THEN LowerCaseLetters[CHOOSE i \in 1..26 : UpperCaseLetters[i] = c]
    ELSE c

toUpperCase(s) == [i \in 1..Len(s) |-> upperChar(s[i])]
toLowerCase(s) == [i \in 1..Len(s) |-> lowerChar(s[i])]

\* s.charAt(i), i counted from 0: the empty string when out of range
charAt(s, i) == IF i + 1 \in 1..Len(s) THEN <<s[i + 1]>> ELSE <<>>

\* s.slice(from), from >= 0
slice(s, from) == IF from >= Len(s) THEN <<>> ELSE SubSeq(s, from + 1, Len(s))

\* s.substring(from, to), 0 <= from, to: both clamped to the length, swapped if needed
substring(s, from, to) ==
  LET a == IF from > Len(s) THEN Len(s) ELSE from
      b == IF to > Len(s) THEN Len(s) ELSE to
      lo == IF a < b THEN a ELSE b
      hi == IF a < b THEN b ELSE a
  IN  SubSeq(s, lo + 1, hi)

\* s.split(sep) for a one-character separator: the pieces between separators
RECURSIVE splitFrom(_, _, _, _)
splitFrom(s, sep, i, piece) ==
  IF i > Len(s) THEN <<piece>>
  ELSE IF s[i] = sep THEN <<piece>> \o splitFrom(s, sep, i + 1, <<>>)
  ELSE splitFrom(s, sep, i + 1, Append(piece, s[i]))

split(s, sep) == splitFrom(s, sep, 1, <<>>)

\* "" + n for a non-negative integer n
RECURSIVE numberToString(_)
numberToString(n) ==
  IF n < 10 THEN <<Digits[n + 1]>>
  ELSE numberToString(n \div 10) \o <<Digits[(n % 10) + 1]>>

(***************************************************************************)
(* String literals of the source.                                           *)
(***************************************************************************)
StrController == <<"C", "o", "n", "t", "r", "o", "l", "l", "e", "r">>
StrDefault == <<"D", "e", "f", "a", "u", "l", "t">>
StrList == <<"l", "i", "s", "t">>
StrCreate == <<"c", "r", "e", "a", "t", "e">>
StrUpdate == <<"u", "p", "d", "a", "t", "e">>
StrDelete == <<"d", "e", "l", "e", "t", "e">>
StrGET == <<"G", "E", "T">>
StrPOST == <<"P", "O", "S", "T">>
StrPUT == <<"P", "U", "T">>
StrWrongResponseCode == <<"W", "r", "o", "n", "g", " ", "r", "e", "s", "p", "o", "n", "s", "e", " ", "c", "o", "d", "e", ":", " ">>
StrWrongData == <<"W", "r", "o", "n", "g", " ", "d", "a", "t", "a", " ", "i", "n", " ", "t", "h", "e", " ", "r", "e", "s", "p", "o", "n", "s", "e", ".", " ">>
StrMessage == <<"m", "e", "s", "s", "a", "g", "e">>
StrContent == <<"c", "o", "n", "t", "e", "n", "t">>
StrJsonContentType == "application/json;charset=utf-8"

(***************************************************************************)
(* Naming: resourceName, generateControllerName, nameMethod.                *)
(***************************************************************************)
\* the first path segment after the leading "/", its first character upper-cased
resourceName(requestedSpecPath) ==
  LET resource == split(requestedSpecPath, "/")[2]
  IN  toUpperCase(charAt(resource, 0)) \o slice(resource, 1)

generateControllerName(url) == resourceName(url) \o StrController

\* nameMethod with its last two branches exchanged
nameMethod_BranchesSwapped(method) ==
  IF method = StrGET THEN StrList
  ELSE IF method = StrPOST THEN StrCreate
  ELSE IF method = StrPUT THEN StrDelete
  ELSE StrUpdate

nameMethod(method) ==
  IF method = StrGET THEN StrList
  ELSE IF method = StrPOST THEN StrCreate
  ELSE IF method = StrPUT THEN StrUpdate
  ELSE StrDelete

(***************************************************************************)
(* JavaScript values and JSON.                                              *)
(***************************************************************************)
Undefined == [t |-> "undefined"]
Num(n) == [t |-> "number", n |-> n]
Str(s) == [t |-> "string", s |-> s]
\* an object: its own properties in insertion order, each <<key, value>>
Obj(props) == [t |-> "object", props |-> props]

\* the characters of a string inside a JSON string literal
RECURSIVE jsonEscape(_)
jsonEscape(s) ==
  IF s = <<>> THEN <<>>
  ELSE (IF Head(s) \in {"\"", "\\"} THEN <<"\\", Head(s)>> ELSE <<Head(s)>>)
       \o jsonEscape(Tail(s))

jsonQuote(s) == <<"\"">> \o jsonEscape(s) \o <<"\"">>

\* the text JSON.stringify produces for a value that is not undefined;
\* a property whose value is undefined is left out of its object
RECURSIVE jsonText(_)
RECURSIVE jsonMembers(_, _)
jsonMembers(props, first) ==
  IF props = <<>> THEN <<>>
  ELSE LET key == Head(props)[1]
           val == Head(props)[2]
       IN  IF val = Undefined THEN jsonMembers(Tail(props), first)
           ELSE (IF first THEN <<>> ELSE <<",">>)
                \o jsonQuote(key) \o <<":">> \o jsonText(val)
                \o jsonMembers(Tail(props), FALSE)

jsonText(v) ==
  IF v.t = "number" THEN numberToString(v.n)
  ELSE IF v.t = "string" THEN jsonQuote(v.s)
  ELSE <<"{">> \o jsonMembers(v.props, TRUE) \o <<"}">>

\* JSON.stringify(v): a string, or undefined for undefined
JSONstringify(v) == IF v = Undefined THEN Undefined ELSE Str(jsonText(v))

StrId == <<"i", "d">>
StrX == <<"x">>

\* the values JSON texts of the model denote
JSONValues ==
  { Num(1), Str(StrX), Obj(<<>>), Obj(<< <<StrId, Num(1)>> >>), Obj(<< <<StrId, Str(StrX)>> >>) }

\* JSON.parse(v): v is converted to a string first, and "undefined" is no JSON
\* text, so parsing undefined throws a SyntaxError
JSONparse(v) ==
  IF v = Undefined \/ ~(\E j \in JSONValues : jsonText(j) = v.s)
    THEN [threw |-> TRUE, value |-> Undefined]
    ELSE [threw |-> FALSE, value |-> CHOOSE j \in JSONValues : jsonText(j) = v.s]

\* the arguments object of a call: its length is fixed by the call, and an
\* assignment to arguments[0] does not change it
Arguments(args) == [length |-> Len(args), a0 |-> IF Len(args) > 0 THEN args[1] ELSE Undefined]

\* f.apply(thisArg, content): the first content.length elements are passed
applyArgs(content) == IF content.length > 0 THEN <<content.a0>> ELSE <<>>

(***************************************************************************)
(* The oasDoc of the model: paths -> method -> operation.  An operation is  *)
(* a function from its property names; hasOwnProperty is DOMAIN membership. *)
(***************************************************************************)
PathWidgets == <<"/", "w", "i", "d", "g", "e", "t", "s">>
PathWidgetsId == <<"/", "w", "i", "d", "g", "e", "t", "s", "/", "{", "i", "d", "}">>
PathTenantItems == <<"/", "{", "t", "e", "n", "a", "n", "t", "}", "/", "i", "t", "e", "m", "s">>
StrAddWidget == <<"a", "d", "d", "W", "i", "d", "g", "e", "t">>
StrCustom == <<"C", "u", "s", "t", "o", "m">>

\* a schema requiring {id: number}
SchemaIdNumber == [type |-> "object", required |-> <<StrId>>, idType |-> "number"]

\* responses[code]: with a JSON schema; without content; with content that has
\* no application/json entry; with an application/json entry that has no schema
RespJsonSchema == ("description" :> "ok") @@ ("content" :> ("application/json" :> ("schema" :> SchemaIdNumber)))
RespNoContent == ("description" :> "created")
RespTextOnly == ("description" :> "text") @@ ("content" :> ("text/plain" :> ("schema" :> [type |-> "string"])))
RespJsonNoSchema == ("description" :> "any") @@ ("content" :> ("application/json" :> ("example" :> "none")))

OasDoc ==
  [paths |->
     (PathWidgets :>
        (   (toLowerCase(StrGET) :>
               ("responses" :> ((200 :> RespJsonSchema) @@ (201 :> RespNoContent))))
         @@ (toLowerCase(StrPOST) :>
               (   ("operationId" :> StrAddWidget)
                @@ ("x-router-controller" :> StrCustom)
                @@ ("responses" :> ((201 :> RespJsonNoSchema) @@ (200 :> RespTextOnly)))))))
     @@
     (PathWidgetsId :>
        (<<"p", "a", "t", "c", "h">> :>
           ("responses" :> (200 :> RespJsonSchema))))
     @@
     (PathTenantItems :>
        (<<"d", "e", "l", "e", "t", "e">> :>
           ("responses" :> (200 :> RespNoContent))))]

\* the requests of the model: req.method, req.path (the literal url) and
\* res.locals.requestedSpecPath (the path of the oasDoc the url was matched to)
Request(method, path, requestedSpecPath) ==
  [method |-> method, path |-> path, requestedSpecPath |-> requestedSpecPath]

UrlWidgets7 == <<"/", "w", "i", "d", "g", "e", "t", "s", "/", "7">>
UrlAcmeItems == <<"/", "a", "c", "m", "e", "/", "i", "t", "e", "m", "s">>

Requests ==
  { Request(StrGET, PathWidgets, PathWidgets),
    Request(StrPOST, PathWidgets, PathWidgets),
    Request(<<"P", "A", "T", "C", "H">>, UrlWidgets7, PathWidgetsId),
    Request(<<"D", "E", "L", "E", "T", "E">>, UrlAcmeItems, PathTenantItems) }

\* the controllers directory: the modules present in it.  Nothing; only the
\* fallback; the controllers named after the literal urls; those named after the
\* templates
StrWidgetsController == <<"W", "i", "d", "g", "e", "t", "s", "C", "o", "n", "t", "r", "o", "l", "l", "e", "r">>
StrAcmeController == <<"A", "c", "m", "e", "C", "o", "n", "t", "r", "o", "l", "l", "e", "r">>
StrTenantController == <<"{", "t", "e", "n", "a", "n", "t", "}", "C", "o", "n", "t", "r", "o", "l", "l", "e", "r">>
ControllerDirs ==
  { {},
    {StrDefault},
    {StrWidgetsController, StrAcmeController, StrCustom, StrDefault},
    {StrAcmeController, StrTenantController, StrCustom} }

\* what a controller does with the response: res.status(code), then res.send(...args)
StatusCodes == {200, 201, 404}
SendArgs ==
  { <<>>, <<Undefined>>, << Obj(<< <<StrId, Str(StrX)>> >>) >>, << Obj(<< <<StrId, Undefined>> >>) >> }

\* what the validator reports: null, or a non-empty array of {message}
Null == [t |-> "null"]
ErrArray(items) == [t |-> "array", items |-> items]
ErrMessages == { <<"b", "a", "d", " ", "i", "d">>, <<"n", "o", " ", "i", "d">> }
RECURSIVE ErrLists(_)
ErrLists(n) ==
  IF n = 0 THEN { <<>> }
  ELSE ErrLists(n - 1) \cup
       { Append(l, [message |-> m]) : l \in { k \in ErrLists(n - 1) : Len(k) = n - 1 }, m \in ErrMessages }
ValidationOutcomes == {Null} \cup { ErrArray(l) : l \in ErrLists(MaxErrs) \ { <<>> } }

(***************************************************************************)
(* existsController, generateOpId and the controller choice of OASRouter.   *)
(***************************************************************************)
\* require(path.join(locationOfControllers, controllerName)) inside try/catch:
\* true when the module loads, false (never an exception) when it does not
existsController(locationOfControllers, controllerName) ==
  controllerName \in locationOfControllers

generateOpId(oasDoc, requestedSpecPath, method) ==
  IF "operationId" \in DOMAIN oasDoc.paths[requestedSpecPath][method]
    THEN oasDoc.paths[requestedSpecPath][method]["operationId"]
    ELSE nameMethod(method) \o resourceName(requestedSpecPath)

\* the controller choice with the existence probe tried before the override
chooseController_ProbeFirst(oasDoc, requestedSpecPath, method, reqPath, controllers) ==
  IF existsController(controllers, generateControllerName(reqPath))
    THEN [controllerName |-> generateControllerName(requestedSpecPath), probed |-> "found"]
  ELSE IF "x-router-controller" \in DOMAIN oasDoc.paths[requestedSpecPath][method]
    THEN [controllerName |-> oasDoc.paths[requestedSpecPath][method]["x-router-controller"],
          probed |-> "missing"]
  ELSE [controllerName |-> StrDefault, probed |-> "missing"]

\* the controller choice without the fallback: the generated name is kept when the probe fails
chooseController_NoFallback(oasDoc, requestedSpecPath, method, reqPath, controllers) ==
  IF "x-router-controller" \in DOMAIN oasDoc.paths[requestedSpecPath][method]
    THEN [controllerName |-> oasDoc.paths[requestedSpecPath][method]["x-router-controller"],
          probed |-> "no"]
  ELSE [controllerName |-> generateControllerName(requestedSpecPath),
        probed |-> IF existsController(controllers, generateControllerName(reqPath))
                     THEN "found" ELSE "missing"]

\* lines 202-208 of OASRouter: the controller name, and whether the existence
\* probe ran and what it answered ("no": it did not run)
chooseController(oasDoc, requestedSpecPath, method, reqPath, controllers) ==
  IF "x-router-controller" \in DOMAIN oasDoc.paths[requestedSpecPath][method]
    THEN [controllerName |-> oasDoc.paths[requestedSpecPath][method]["x-router-controller"],
          probed |-> "no"]
  ELSE IF existsController(controllers, generateControllerName(reqPath))
    THEN [controllerName |-> generateControllerName(requestedSpecPath), probed |-> "found"]
  ELSE [controllerName |-> StrDefault, probed |-> "missing"]

\* processErr: every message preceded by ". ", then the first two characters dropped
RECURSIVE processErrLoop(_, _, _)
processErrLoop(err, i, errors) ==
  IF i < Len(err) THEN processErrLoop(err, i + 1, errors \o <<".", " ">> \o err[i + 1].message)
  ELSE errors

\* processErr cutting one character, not the two of the leading separator
processErr_CutsOneChar(err) ==
  LET errors == processErrLoop(err, 0, <<>>)
  IN  substring(errors, 1, Len(errors))

processErr(err) ==
  LET errors == processErrLoop(err, 0, <<>>)
  IN  substring(errors, 2, Len(errors))

(***************************************************************************)
(* checkResponse.  The synchronous part ends in one of three ways: the      *)
(* original send was applied ("sent"), an exception left the function       *)
(* ("threw"), or validator.validate was called and its callback is awaited  *)
(* ("validating").                                                          *)
(***************************************************************************)
LogLine(level, msg) == [level |-> level, msg |-> msg]

\* config.strict == true, as read by the branch that consults it
Unread == "unread"
readStrict(strictNow) == IF strictNow = TRUE THEN "true" ELSE "false"

CheckResult(outcome, content, data, schema, logs, strictRead) ==
  [outcome |-> outcome, content |-> content, data |-> data, schema |-> schema,
   logs |-> logs, strictRead |-> strictRead]

checkResponse(statusCode, oasDoc, method, requestedSpecPath, content, strictNow) ==
  LET code == statusCode
      data == content.a0
      responses == oasDoc.paths[requestedSpecPath][method]["responses"]
  IN  IF code \notin DOMAIN responses
        THEN LET msg == StrWrongResponseCode \o numberToString(code)
             IN  IF strictNow = TRUE
                   THEN CheckResult("sent",
                          [content EXCEPT !.a0 = JSONstringify(Obj(<< <<StrMessage, Str(msg)>> >>))],
                          data, Undefined, <<LogLine("error", msg)>>, readStrict(strictNow))
                   ELSE CheckResult("sent", content, data, Undefined,
                          <<LogLine("warning", msg)>>, readStrict(strictNow))
      ELSE IF "content" \in DOMAIN responses[code]
        THEN IF "application/json" \notin DOMAIN responses[code]["content"]
               THEN \* reading .schema of undefined: TypeError
                    CheckResult("threw", content, data, Undefined, <<>>, Unread)
             ELSE LET media == responses[code]["content"]["application/json"]
                      validSchema == IF "schema" \in DOMAIN media THEN media["schema"] ELSE Undefined
                      parsed == JSONparse(data)
                  IN  IF parsed.threw
                        THEN CheckResult("threw", content, data, validSchema, <<>>, Unread)
                        ELSE CheckResult("validating", content, parsed.value, validSchema, <<>>, Unread)
      ELSE CheckResult("sent", content, data, Undefined, <<>>, Unread)

\* the callback passing on the deserialized data when validation found no error
validateCallback_SendsParsed(err, statusCode, content, data, strictNow) ==
  LET msg == IF err # Null THEN StrWrongData \o processErr(err.items) ELSE <<>>
  IN  IF Len(msg) > 0
        THEN IF strictNow = TRUE
               THEN [statusCode |-> 400,
                     content |-> [content EXCEPT !.a0 =
                        JSONstringify(Obj(<< <<StrMessage, Str(msg)>>, <<StrContent, data>> >>))],
                     logs |-> <<LogLine("error", msg)>>, strictRead |-> readStrict(strictNow)]
               ELSE [statusCode |-> statusCode, content |-> content,
                     logs |-> <<LogLine("warning", msg)>>, strictRead |-> readStrict(strictNow)]
        ELSE [statusCode |-> statusCode, content |-> [content EXCEPT !.a0 = data],
              logs |-> <<>>, strictRead |-> Unread]

\* the callback answering 400 also when it only warns
validateCallback_WarningSets400(err, statusCode, content, data, strictNow) ==
  LET msg == IF err # Null THEN StrWrongData \o processErr(err.items) ELSE <<>>
  IN  IF Len(msg) > 0
        THEN IF strictNow = TRUE
               THEN [statusCode |-> 400,
                     content |-> [content EXCEPT !.a0 =
                        JSONstringify(Obj(<< <<StrMessage, Str(msg)>>, <<StrContent, data>> >>))],
                     logs |-> <<LogLine("error", msg)>>, strictRead |-> readStrict(strictNow)]
               ELSE [statusCode |-> 400, content |-> content,
                     logs |-> <<LogLine("warning", msg)>>, strictRead |-> readStrict(strictNow)]
        ELSE [statusCode |-> statusCode, content |-> content, logs |-> <<>>, strictRead |-> Unread]

\* the callback without res.status(400)
validateCallback_StatusKept(err, statusCode, content, data, strictNow) ==
  LET msg == IF err # Null THEN StrWrongData \o processErr(err.items) ELSE <<>>
  IN  IF Len(msg) > 0
        THEN IF strictNow = TRUE
               THEN [statusCode |-> statusCode,
                     content |-> [content EXCEPT !.a0 =
                        JSONstringify(Obj(<< <<StrMessage, Str(msg)>>, <<StrContent, data>> >>))],
                     logs |-> <<LogLine("error", msg)>>, strictRead |-> readStrict(strictNow)]
               ELSE [statusCode |-> statusCode, content |-> content,
                     logs |-> <<LogLine("warning", msg)>>, strictRead |-> readStrict(strictNow)]
        ELSE [statusCode |-> statusCode, content |-> content, logs |-> <<>>, strictRead |-> Unread]

\* the callback replacing the payload in the warning branch too
validateCallback_WarningRewrites(err, statusCode, content, data, strictNow) ==
  LET msg == IF err # Null THEN StrWrongData \o processErr(err.items) ELSE <<>>
      replaced == [content EXCEPT !.a0 =
                     JSONstringify(Obj(<< <<StrMessage, Str(msg)>>, <<StrContent, data>> >>))]
  IN  IF Len(msg) > 0
        THEN IF strictNow = TRUE
               THEN [statusCode |-> 400, content |-> replaced,
                     logs |-> <<LogLine("error", msg)>>, strictRead |-> readStrict(strictNow)]
               ELSE [statusCode |-> statusCode, content |-> replaced,
                     logs |-> <<LogLine("warning", msg)>>, strictRead |-> readStrict(strictNow)]
        ELSE [statusCode |-> statusCode, content |-> content, logs |-> <<>>, strictRead |-> Unread]

\* the callback given to validator.validate: err is null or the array of errors
validateCallback(err, statusCode, content, data, strictNow) ==
  LET msg == IF err # Null THEN StrWrongData \o processErr(err.items) ELSE <<>>
  IN  IF Len(msg) > 0
        THEN IF strictNow = TRUE
               THEN [statusCode |-> 400,
                     content |-> [content EXCEPT !.a0 =
                        JSONstringify(Obj(<< <<StrMessage, Str(msg)>>, <<StrContent, data>> >>))],
                     logs |-> <<LogLine("error", msg)>>, strictRead |-> readStrict(strictNow)]
               ELSE [statusCode |-> statusCode, content |-> content,
                     logs |-> <<LogLine("warning", msg)>>, strictRead |-> readStrict(strictNow)]
        ELSE [statusCode |-> statusCode, content |-> content, logs |-> <<>>, strictRead |-> Unread]

(***************************************************************************)
(* State.                                                                   *)
(***************************************************************************)
VARIABLES
  strict,    \* config.strict
  exited,    \* process.exit() was called
  pc,        \* per request: where its handling stands
  req,       \* per request: req.method, req.path, res.locals.requestedSpecPath
  ctx,       \* per request: controllerName, the probe's answer, opID
  res,       \* per request: the response object, the number of calls of
             \* validator.validate and the calls of the original send
  call,      \* per request: the status code and arguments of the controller's res.send
  pending,   \* per request: content, data and schema held by the validation callback
  decision,  \* per request: the value of config.strict that was read, if it was, and
             \* the err the validator called back with, if it did (and, where a
             \* specification keeps it, config.strict as it was at install time)
  logged,    \* per request: the error and warning lines logged
  steps      \* per request: the steps of OASRouter in the order they ran

vars == <<strict, exited, pc, req, ctx, res, call, pending, decision, logged, steps>>

Reqs == 1..NumReqs

NoRequest == Request(<<>>, <<>>, <<>>)
NoCtx == [controllerName |-> <<>>, probed |-> "no", opID |-> <<>>]
NewRes == [statusCode |-> 200, contentType |-> "", intercepted |-> FALSE, validated |-> 0, sent |-> <<>>]
NoCall == [statusCode |-> 200, args |-> <<>>]
NoPending == [content |-> Arguments(<<>>), data |-> Undefined, schema |-> Undefined]
NoDecision == [strictAtInstall |-> Unread, strictRead |-> Unread, err |-> [t |-> "none"]]

Init ==
  /\ strict \in BOOLEAN
  /\ exited = FALSE
  /\ pc = [r \in Reqs |-> "idle"]
  /\ req = [r \in Reqs |-> NoRequest]
  /\ ctx = [r \in Reqs |-> NoCtx]
  /\ res = [r \in Reqs |-> NewRes]
  /\ call = [r \in Reqs |-> NoCall]
  /\ pending = [r \in Reqs |-> NoPending]
  /\ decision = [r \in Reqs |-> NoDecision]
  /\ logged = [r \in Reqs |-> <<>>]
  /\ steps = [r \in Reqs |-> <<>>]

\* the configuration is changed (config is a module-level object shared by all requests)
SetStrict(b) ==
  /\ ~exited
  /\ strict # b
  /\ strict' = b
  /\ UNCHANGED <<exited, pc, req, ctx, res, call, pending, decision, logged, steps>>

StrControllerNotFound == <<"C", "o", "n", "t", "r", "o", "l", "l", "e", "r", " ", "n", "o", "t", " ", "f", "o", "u", "n", "d", ":", " ">>

\* OASRouter with the interceptor installed before the controller is loaded
OASRouter_InstallBeforeLoad(r, request, controllers, exported) ==
  LET oasDoc == OasDoc
      requestedSpecPath == request.requestedSpecPath
      method == toLowerCase(request.method)
      chosen == chooseController(oasDoc, requestedSpecPath, method, request.path, controllers)
      controllerName == chosen.controllerName
      opID == generateOpId(oasDoc, requestedSpecPath, method)
      loaded == controllerName \in controllers
  IN  /\ ~exited
      /\ pc[r] = "idle"
      /\ req' = [req EXCEPT ![r] = request]
      /\ ctx' = [ctx EXCEPT ![r] =
           [controllerName |-> controllerName, probed |-> chosen.probed, opID |-> opID]]
      /\ res' = [res EXCEPT ![r].intercepted = TRUE]
      /\ IF ~loaded
           THEN /\ exited' = TRUE
                /\ pc' = [pc EXCEPT ![r] = "exited"]
                /\ logged' = [logged EXCEPT ![r] = <<LogLine("error", StrControllerNotFound \o controllerName)>>]
                /\ steps' = [steps EXCEPT ![r] =
                     <<"RESOLVE_CONTROLLER", "RESOLVE_OPERATION_ID", "INSTALL_INTERCEPTOR",
                       "LOAD_CONTROLLER">>]
           ELSE /\ exited' = exited
                /\ logged' = logged
                /\ IF exported
                     THEN /\ pc' = [pc EXCEPT ![r] = "invoked"]
                          /\ steps' = [steps EXCEPT ![r] =
                               <<"RESOLVE_CONTROLLER", "RESOLVE_OPERATION_ID", "INSTALL_INTERCEPTOR",
                                 "LOAD_CONTROLLER", "INVOKE">>]
                     ELSE /\ pc' = [pc EXCEPT ![r] = "threw"]
                          /\ steps' = [steps EXCEPT ![r] =
                               <<"RESOLVE_CONTROLLER", "RESOLVE_OPERATION_ID", "INSTALL_INTERCEPTOR",
                                 "LOAD_CONTROLLER">>]
      /\ UNCHANGED <<strict, call, pending, decision>>

\* OASRouter(req, res, next) for a new request.  controllers: the modules present in
\* the controllers directory; exported: whether the loaded controller has the handler
\* that executeFunctionByName looks up.  noted is kept as history of the moment the
\* interceptor is installed; OASRouter does not read config.strict.
OASRouterNoting(r, request, controllers, exported, noted) ==
  LET oasDoc == OasDoc
      requestedSpecPath == request.requestedSpecPath
      method == toLowerCase(request.method)
      chosen == chooseController(oasDoc, requestedSpecPath, method, request.path, controllers)
      controllerName == chosen.controllerName
      opID == generateOpId(oasDoc, requestedSpecPath, method)
      loaded == controllerName \in controllers
  IN  /\ ~exited
      /\ pc[r] = "idle"
      /\ req' = [req EXCEPT ![r] = request]
      /\ ctx' = [ctx EXCEPT ![r] =
           [controllerName |-> controllerName, probed |-> chosen.probed, opID |-> opID]]
      /\ IF ~loaded
           THEN \* require throws: logger.error, process.exit()
                /\ exited' = TRUE
                /\ pc' = [pc EXCEPT ![r] = "exited"]
                /\ logged' = [logged EXCEPT ![r] = <<LogLine("error", StrControllerNotFound \o controllerName)>>]
                /\ steps' = [steps EXCEPT ![r] = <<"RESOLVE_CONTROLLER", "RESOLVE_OPERATION_ID", "LOAD_CONTROLLER">>]
                /\ UNCHANGED <<res, decision>>
           ELSE /\ exited' = exited
                /\ res' = [res EXCEPT ![r].intercepted = TRUE]
                /\ decision' = [decision EXCEPT ![r].strictAtInstall = noted]
                /\ logged' = logged
                /\ IF exported
                     THEN \* executeFunctionByName(opID, controller, req, res, next)
                          /\ pc' = [pc EXCEPT ![r] = "invoked"]
                          /\ steps' = [steps EXCEPT ![r] =
                               <<"RESOLVE_CONTROLLER", "RESOLVE_OPERATION_ID", "LOAD_CONTROLLER",
                                 "INSTALL_INTERCEPTOR", "INVOKE">>]
                     ELSE \* context[func] is undefined: a TypeError leaves OASRouter
                          /\ pc' = [pc EXCEPT ![r] = "threw"]
                          /\ steps' = [steps EXCEPT ![r] =
                               <<"RESOLVE_CONTROLLER", "RESOLVE_OPERATION_ID", "LOAD_CONTROLLER",
                                 "INSTALL_INTERCEPTOR">>]
      /\ UNCHANGED <<strict, call, pending>>

OASRouter(r, request, controllers, exported) ==
  OASRouterNoting(r, request, controllers, exported, Unread)

\* oldSend.apply(res, content): one more call of the original send
applySend(response, content) ==
  [response EXCEPT !.sent = Append(@, [args |-> applyArgs(content),
                                        statusCode |-> response.statusCode,
                                        contentType |-> response.contentType])]

\* ControllerSend with the Content-Type header set after checkResponse returns
ControllerSend_HeaderAfterCheck(r, code, args) ==
  LET arguments == [Arguments(args) EXCEPT !.a0 = JSONstringify(@)]
      response == [res[r] EXCEPT !.statusCode = code]
      cr == checkResponse(response.statusCode, OasDoc, toLowerCase(req[r].method),
                          req[r].requestedSpecPath, arguments, strict)
  IN  /\ ~exited
      /\ pc[r] = "invoked"
      /\ call' = [call EXCEPT ![r] = [statusCode |-> code, args |-> args]]
      /\ logged' = [logged EXCEPT ![r] = @ \o cr.logs]
      /\ decision' = [decision EXCEPT ![r].strictRead = cr.strictRead]
      /\ pc' = [pc EXCEPT ![r] = cr.outcome]
      /\ IF cr.outcome = "sent"
           THEN /\ res' = [res EXCEPT ![r] =
                     [applySend(response, cr.content) EXCEPT !.contentType = StrJsonContentType]]
                /\ UNCHANGED pending
         ELSE IF cr.outcome = "validating"
           THEN /\ res' = [res EXCEPT ![r] =
                     [response EXCEPT !.validated = @ + 1, !.contentType = StrJsonContentType]]
                /\ pending' = [pending EXCEPT ![r] =
                     [content |-> cr.content, data |-> cr.data, schema |-> cr.schema]]
         ELSE /\ res' = [res EXCEPT ![r] = response]
              /\ UNCHANGED pending
      /\ UNCHANGED <<strict, exited, req, ctx, steps>>

\* The controller's handler answers: res.status(code), then res.send(...args), which
\* is the interceptor installed by OASRouter: it serialises arguments[0], sets the
\* Content-Type header and runs checkResponse up to the validator's callback.
ControllerSend(r, code, args) ==
  LET arguments == [Arguments(args) EXCEPT !.a0 = JSONstringify(@)]
      response == [res[r] EXCEPT !.statusCode = code, !.contentType = StrJsonContentType]
      cr == checkResponse(response.statusCode, OasDoc, toLowerCase(req[r].method),
                          req[r].requestedSpecPath, arguments, strict)
  IN  /\ ~exited
      /\ pc[r] = "invoked"
      /\ call' = [call EXCEPT ![r] = [statusCode |-> code, args |-> args]]
      /\ logged' = [logged EXCEPT ![r] = @ \o cr.logs]
      /\ decision' = [decision EXCEPT ![r].strictRead = cr.strictRead]
      /\ pc' = [pc EXCEPT ![r] = cr.outcome]
      /\ IF cr.outcome = "sent"
           THEN /\ res' = [res EXCEPT ![r] = applySend(response, cr.content)]
                /\ UNCHANGED pending
         ELSE IF cr.outcome = "validating"
           THEN \* validator.validate(data, validSchema, callback)
                /\ res' = [res EXCEPT ![r] = [response EXCEPT !.validated = @ + 1]]
                /\ pending' = [pending EXCEPT ![r] =
                     [content |-> cr.content, data |-> cr.data, schema |-> cr.schema]]
         ELSE /\ res' = [res EXCEPT ![r] = response]
              /\ UNCHANGED pending
      /\ UNCHANGED <<strict, exited, req, ctx, steps>>

\* ValidatorCallback with the response and the arguments held in variables shared by
\* all requests instead of the closure's own
ValidatorCallback_SharedResponse(r, err) ==
  LET q == CHOOSE q \in DOMAIN pc : pc[q] = "validating"
      cb == validateCallback(err, res[q].statusCode, pending[q].content, pending[q].data, strict)
      response == [res[q] EXCEPT !.statusCode = cb.statusCode]
  IN  /\ ~exited
      /\ pc[r] = "validating"
      /\ logged' = [logged EXCEPT ![r] = @ \o cb.logs]
      /\ decision' = [decision EXCEPT ![r].strictRead = cb.strictRead, ![r].err = err]
      /\ pending' = [pending EXCEPT ![r] = NoPending]
      /\ res' = [res EXCEPT ![q] = applySend(response, cb.content)]
      /\ pc' = [pc EXCEPT ![r] = "sent"]
      /\ UNCHANGED <<strict, exited, req, ctx, call, steps>>

\* ValidatorCallback deciding by config.strict as it was when the interceptor was
\* installed
ValidatorCallback_StrictAtInstall(r, err) ==
  LET cb == validateCallback(err, res[r].statusCode, pending[r].content, pending[r].data,
                             decision[r].strictAtInstall = "true")
      response == [res[r] EXCEPT !.statusCode = cb.statusCode]
  IN  /\ ~exited
      /\ pc[r] = "validating"
      /\ logged' = [logged EXCEPT ![r] = @ \o cb.logs]
      /\ decision' = [decision EXCEPT ![r].strictRead = cb.strictRead, ![r].err = err]
      /\ pending' = [pending EXCEPT ![r] = NoPending]
      /\ res' = [res EXCEPT ![r] = applySend(response, cb.content)]
      /\ pc' = [pc EXCEPT ![r] = "sent"]
      /\ UNCHANGED <<strict, exited, req, ctx, call, steps>>

\* The validator calls back with its outcome; the callback's closure is then released.
ValidatorCallback(r, err) ==
  LET cb == validateCallback(err, res[r].statusCode, pending[r].content, pending[r].data, strict)
      response == [res[r] EXCEPT !.statusCode = cb.statusCode]
  IN  /\ ~exited
      /\ pc[r] = "validating"
      /\ logged' = [logged EXCEPT ![r] = @ \o cb.logs]
      /\ decision' = [decision EXCEPT ![r].strictRead = cb.strictRead, ![r].err = err]
      /\ pending' = [pending EXCEPT ![r] = NoPending]
      /\ res' = [res EXCEPT ![r] = applySend(response, cb.content)]
      /\ pc' = [pc EXCEPT ![r] = "sent"]
      /\ UNCHANGED <<strict, exited, req, ctx, call, steps>>

\* The request is over and its context is dropped.
Discard(r) ==
  /\ ~exited
  /\ pc[r] \in {"sent", "threw"}
  /\ pc' = [pc EXCEPT ![r] = "idle"]
  /\ req' = [req EXCEPT ![r] = NoRequest]
  /\ ctx' = [ctx EXCEPT ![r] = NoCtx]
  /\ res' = [res EXCEPT ![r] = NewRes]
  /\ call' = [call EXCEPT ![r] = NoCall]
  /\ pending' = [pending EXCEPT ![r] = NoPending]
  /\ decision' = [decision EXCEPT ![r] = NoDecision]
  /\ logged' = [logged EXCEPT ![r] = <<>>]
  /\ steps' = [steps EXCEPT ![r] = <<>>]
  /\ UNCHANGED <<strict, exited>>

Next ==
  \/ \E b \in BOOLEAN : SetStrict(b)
  \/ \E r \in Reqs, request \in Requests, controllers \in ControllerDirs, exported \in BOOLEAN :
       OASRouter(r, request, controllers, exported)
  \/ \E r \in Reqs, code \in StatusCodes, args \in SendArgs : ControllerSend(r, code, args)
  \/ \E r \in Reqs, err \in ValidationOutcomes : ValidatorCallback(r, err)
  \/ \E r \in Reqs : Discard(r)

Spec == Init /\ [][Next]_vars

\* The validator is assumed to call back, sooner or later, every callback it was given.
SpecLive ==
  /\ Init
  /\ [][Next]_vars
  /\ \A r \in Reqs : WF_vars(\E err \in ValidationOutcomes : ValidatorCallback(r, err))

(***************************************************************************)
(* Several requests in flight at once: each call of OASRouter has its own   *)
(* req and res and its own closures, and the validator calls back in any    *)
(* order.  The inputs are few so that the interleavings of NumConc requests *)
(* can be enumerated: GET /widgets answered by its controller with 200      *)
(* (validated against the schema) or 201 (sent as it is), two payloads, and *)
(* a validator that accepts or reports one error.                           *)
(***************************************************************************)
NumConc == 2
ConcReqs == 1..NumConc

ConcSendArgs == { << Obj(<< <<StrId, Str(StrX)>> >>) >>, << Obj(<< <<StrId, Undefined>> >>) >> }
ConcOutcomes == { Null, ErrArray(<< [message |-> <<"b", "a", "d", " ", "i", "d">>] >>) }

InitConc ==
  /\ strict \in BOOLEAN
  /\ exited = FALSE
  /\ pc = [r \in ConcReqs |-> "idle"]
  /\ req = [r \in ConcReqs |-> NoRequest]
  /\ ctx = [r \in ConcReqs |-> NoCtx]
  /\ res = [r \in ConcReqs |-> NewRes]
  /\ call = [r \in ConcReqs |-> NoCall]
  /\ pending = [r \in ConcReqs |-> NoPending]
  /\ decision = [r \in ConcReqs |-> NoDecision]
  /\ logged = [r \in ConcReqs |-> <<>>]
  /\ steps = [r \in ConcReqs |-> <<>>]

NextConc ==
  \/ \E b \in BOOLEAN : SetStrict(b)
  \/ \E r \in ConcReqs :
       OASRouter(r, Request(StrGET, PathWidgets, PathWidgets),
                 {StrWidgetsController, StrAcmeController, StrCustom, StrDefault}, TRUE)
  \/ \E r \in ConcReqs, code \in {200, 201}, args \in ConcSendArgs : ControllerSend(r, code, args)
  \/ \E r \in ConcReqs, err \in ConcOutcomes : ValidatorCallback(r, err)
  \/ \E r \in ConcReqs : Discard(r)

SpecConc == InitConc /\ [][NextConc]_vars

(***************************************************************************)
(* Requests of one kind, with what Spec leaves out to stay small: the value *)
(* config.strict had when the interceptor was installed is kept as history, *)
(* and the validator reports up to MaxErrs + 1 errors.  GET /widgets is     *)
(* answered with 200 (validated against the schema) or 404 (undeclared).    *)
(***************************************************************************)
FlagOutcomes == {Null} \cup { ErrArray(l) : l \in ErrLists(MaxErrs + 1) \ { <<>> } }

NextFlag ==
  \/ \E b \in BOOLEAN : SetStrict(b)
  \/ \E r \in Reqs :
       OASRouterNoting(r, Request(StrGET, PathWidgets, PathWidgets),
                       {StrWidgetsController, StrAcmeController, StrCustom, StrDefault}, TRUE,
                       readStrict(strict))
  \/ \E r \in Reqs, code \in {200, 404}, args \in ConcSendArgs : ControllerSend(r, code, args)
  \/ \E r \in Reqs, err \in FlagOutcomes : ValidatorCallback(r, err)
  \/ \E r \in Reqs : Discard(r)

SpecFlag == Init /\ [][NextFlag]_vars

(***************************************************************************)
(* What the properties below read from a request's state.                   *)
(***************************************************************************)
\* the Operation of the oasDoc for the request's path and method
Operation(r) == OasDoc.paths[req[r].requestedSpecPath][toLowerCase(req[r].method)]

\* the interceptor installed on res.send has been called
SendCalled(r) == res[r].contentType = StrJsonContentType

\* the status code the controller set is declared; it is declared with a schema
\* for application/json
Declared(r) == call[r].statusCode \in DOMAIN Operation(r)["responses"]
HasJsonSchema(r) ==
  /\ Declared(r)
  /\ "content" \in DOMAIN Operation(r)["responses"][call[r].statusCode]
  /\ "application/json" \in DOMAIN Operation(r)["responses"][call[r].statusCode]["content"]
  /\ "schema" \in DOMAIN Operation(r)["responses"][call[r].statusCode]["content"]["application/json"]

\* the payload a call of the original send received
Received(c) == IF Len(c.args) > 0 THEN c.args[1] ELSE Undefined

\* the controller's payload, and its serialized form
OriginalPayload(r) == IF Len(call[r].args) > 0 THEN call[r].args[1] ELSE Undefined
OriginalSerialized(r) == JSONstringify(OriginalPayload(r))

ValidationFailed(r) == decision[r].err.t = "array"

StartsWith(s, prefix) == Len(s) >= Len(prefix) /\ SubSeq(s, 1, Len(prefix)) = prefix
EndsWith(s, suffix) == Len(s) >= Len(suffix) /\ SubSeq(s, Len(s) - Len(suffix) + 1, Len(s)) = suffix

(***************************************************************************)
(* Properties.                                                              *)
(***************************************************************************)
\* C1: once a call of the intercepted send is over (it is not waiting for the
\* validator), the original send has been invoked exactly once, whatever the status
\* code, the ResponseSpec, the payload, the validation outcome and strict.
C1_SendExactlyOnce ==
  \A r \in Reqs : (SendCalled(r) /\ pc[r] # "validating") => Len(res[r].sent) = 1

\* C2: status declared with a JSON schema, validation failed, strict true: the
\* original send received the text of {message, content} where message begins with
\* "Wrong data in the response. " and content is the deserialized original data,
\* and the status code was 400 when it was invoked.
C2_StrictSchemaFailure ==
  \A r \in Reqs :
    (pc[r] = "sent" /\ HasJsonSchema(r) /\ ValidationFailed(r) /\ decision[r].strictRead = "true") =>
      /\ Len(res[r].sent) = 1
      /\ res[r].sent[1].statusCode = 400
      /\ Len(res[r].sent[1].args) = 1
      /\ Received(res[r].sent[1]).t = "string"
      /\ StartsWith(Received(res[r].sent[1]).s,
                    <<"{">> \o jsonQuote(StrMessage) \o <<":", "\"">> \o StrWrongData)
      /\ EndsWith(Received(res[r].sent[1]).s,
                  <<"\"", ",">> \o jsonQuote(StrContent) \o <<":">>
                    \o jsonText(JSONparse(OriginalSerialized(r)).value) \o <<"}">>)

C2_Witness ==
  \E r \in Reqs :
    /\ pc[r] = "sent" /\ HasJsonSchema(r) /\ ValidationFailed(r)
    /\ decision[r].strictRead = "true"
    /\ call[r].statusCode = 200
    /\ OriginalPayload(r) = Obj(<< <<StrId, Str(StrX)>> >>)
    /\ res[r].sent[1].statusCode = 400

\* C3: status code not declared, strict true: the original send received the text
\* of {message: "Wrong response code: <code>"}, the status code is the one the
\* controller set, and the validator was not called.
C3_StrictUndeclaredCode ==
  \A r \in Reqs :
    (pc[r] = "sent" /\ ~Declared(r) /\ decision[r].strictRead = "true") =>
      /\ res[r].sent[1].args =
           << Str(<<"{">> \o jsonQuote(StrMessage) \o <<":">>
                  \o jsonQuote(StrWrongResponseCode \o numberToString(call[r].statusCode))
                  \o <<"}">>) >>
      /\ res[r].sent[1].statusCode = call[r].statusCode
      /\ res[r].validated = 0

\* C4: in every step that invokes the original send while strict is false, the
\* payload it receives is the controller's serialized payload, the status code is
\* the one the controller set, and nothing was logged at error level.
C4_NonStrictUntouched ==
  [][\A r \in Reqs :
       (strict = FALSE /\ Len(res'[r].sent) > Len(res[r].sent)) =>
         /\ Received(res'[r].sent[Len(res'[r].sent)]) =
              JSONstringify(IF Len(call'[r].args) > 0 THEN call'[r].args[1] ELSE Undefined)
         /\ res'[r].sent[Len(res'[r].sent)].statusCode = call'[r].statusCode
         /\ \A i \in DOMAIN logged'[r] : logged'[r][i].level # "error"]_vars

C4_Witness ==
  \E r \in Reqs :
    /\ pc[r] = "sent" /\ HasJsonSchema(r) /\ ValidationFailed(r)
    /\ decision[r].strictRead = "false"
    /\ Received(res[r].sent[1]) = OriginalSerialized(r)
    /\ res[r].sent[1].statusCode = call[r].statusCode
    /\ logged[r] # <<>> /\ logged[r][1].level = "warning"

\* C5: status code declared, no schema for application/json (no content, or content
\* without an application/json schema): the validator is not called and the original
\* send receives the unmodified payload with the status code unchanged.
C5_NoSchemaPassThrough ==
  \A r \in Reqs :
    (SendCalled(r) /\ Declared(r) /\ ~HasJsonSchema(r)) =>
      /\ res[r].validated = 0
      /\ pc[r] = "sent"
      /\ Len(res[r].sent) = 1
      /\ Received(res[r].sent[1]) = OriginalSerialized(r)
      /\ res[r].sent[1].statusCode = call[r].statusCode

\* C6: the Operation declares x-router-controller: the controller name that is
\* loaded is that value, whatever the url and whatever the directory holds.
C6_OverrideWins ==
  \A r \in Reqs :
    (pc[r] # "idle" /\ "x-router-controller" \in DOMAIN Operation(r)) =>
      /\ ctx[r].controllerName = Operation(r)["x-router-controller"]
      /\ ctx[r].controllerName = StrCustom

C6_Witness ==
  \E r \in Reqs :
    /\ pc[r] = "invoked"
    /\ "x-router-controller" \in DOMAIN Operation(r)
    /\ generateControllerName(req[r].path) = StrWidgetsController
    /\ ctx[r].controllerName = StrCustom

\* C7: no override and the probe of the name generated from the url succeeded: the
\* controller name chosen is the probed name, resourceName(url) + "Controller".
C7_ProbedNameChosen ==
  \A r \in Reqs :
    (pc[r] # "idle" /\ "x-router-controller" \notin DOMAIN Operation(r) /\ ctx[r].probed = "found") =>
      ctx[r].controllerName = generateControllerName(req[r].path)

\* C8: no override and the probe failed: nothing is raised, the dispatch goes on to
\* resolve the operation id and load the controller, and the name chosen is "Default".
C8_FallbackDefault ==
  \A r \in Reqs :
    (pc[r] # "idle" /\ "x-router-controller" \notin DOMAIN Operation(r) /\ ctx[r].probed = "missing") =>
      /\ ctx[r].controllerName = StrDefault
      /\ Len(steps[r]) >= 3
      /\ steps[r][1] = "RESOLVE_CONTROLLER"
      /\ ctx[r].opID # <<>>

C8_Witness ==
  \E r \in Reqs :
    /\ pc[r] = "invoked"
    /\ "x-router-controller" \notin DOMAIN Operation(r)
    /\ ctx[r].probed = "missing"
    /\ ctx[r].controllerName = StrDefault

\* C9: the handler invoked is named by operationId when the Operation declares one,
\* and otherwise by the name of the request's method (GET list, POST create, PUT
\* update, any other delete) followed by resourceName(path template).
C9_OperationIdResolution ==
  \A r \in Reqs :
    (pc[r] = "invoked") =>
      ctx[r].opID =
        IF "operationId" \in DOMAIN Operation(r)
          THEN Operation(r)["operationId"]
          ELSE nameMethod(req[r].method) \o resourceName(req[r].requestedSpecPath)

\* C10: method not GET, POST or PUT and no operationId: the operation id is
\* "delete" + resourceName(path template); PATCH on /widgets/{id} gives "deleteWidgets".
C10_OtherMethodsDelete ==
  \A r \in Reqs :
    (/\ pc[r] # "idle"
     /\ req[r].method \notin {StrGET, StrPOST, StrPUT}
     /\ "operationId" \notin DOMAIN Operation(r)) =>
      /\ ctx[r].opID = StrDelete \o resourceName(req[r].requestedSpecPath)
      /\ req[r].requestedSpecPath = PathWidgetsId =>
           ctx[r].opID = <<"d", "e", "l", "e", "t", "e", "W", "i", "d", "g", "e", "t", "s">>

C10_Witness ==
  \E r \in Reqs :
    /\ pc[r] = "invoked"
    /\ req[r].method = <<"P", "A", "T", "C", "H">>
    /\ req[r].requestedSpecPath = PathWidgetsId
    /\ ctx[r].opID = <<"d", "e", "l", "e", "t", "e", "W", "i", "d", "g", "e", "t", "s">>

\* the steps a request's dispatch has taken, as a set
StepsTaken(r) == {steps[r][i] : i \in DOMAIN steps[r]}

\* C11: when loading the chosen controller fails, the error is logged and the process
\* is terminated: for that request the interceptor is not installed, the handler is
\* not invoked and nothing is sent; and the process is terminated by no other step
\* than a failed load.
C11_LoadFailureIsFatal ==
  /\ \A r \in Reqs :
       pc[r] = "exited" =>
         /\ exited
         /\ Len(steps[r]) > 0 /\ steps[r][Len(steps[r])] = "LOAD_CONTROLLER"
         /\ logged[r] = <<LogLine("error", StrControllerNotFound \o ctx[r].controllerName)>>
         /\ ~res[r].intercepted
         /\ "INSTALL_INTERCEPTOR" \notin StepsTaken(r)
         /\ "INVOKE" \notin StepsTaken(r)
         /\ ~SendCalled(r)
         /\ res[r].sent = <<>>
  /\ exited => \E r \in Reqs : pc[r] = "exited"

C11_Witness ==
  \E r \in Reqs :
    /\ pc[r] = "exited"
    /\ exited
    /\ ctx[r].controllerName = StrDefault
    /\ ctx[r].probed = "missing"

\* C12: for a response with an undeclared status code, with a failed schema
\* validation, or with a declared status that has no JSON schema, strict or not, the
\* call of the intercepted send returns normally: no exception reaches the controller.
C12_RecoverableNeverThrows ==
  \A r \in Reqs :
    (SendCalled(r) /\ (~Declared(r) \/ ValidationFailed(r) \/ ~HasJsonSchema(r))) =>
      pc[r] # "threw"

IsPrefix(s, t) == Len(s) <= Len(t) /\ SubSeq(t, 1, Len(s)) = s

\* the request's dispatch got as far as calling the handler
Dispatched(r) == pc[r] \in {"invoked", "validating", "sent"} \/ SendCalled(r)

\* C13 as stated: the steps of a dispatch run in the order RESOLVE_CONTROLLER,
\* LOAD_CONTROLLER, RESOLVE_OPERATION_ID, INSTALL_INTERCEPTOR, INVOKE, each once and
\* never backwards: the operation id is resolved after the controller is loaded.
C13_DispatchOrder ==
  \A r \in Reqs :
    /\ IsPrefix(steps[r], <<"RESOLVE_CONTROLLER", "LOAD_CONTROLLER", "RESOLVE_OPERATION_ID",
                            "INSTALL_INTERCEPTOR", "INVOKE">>)
    /\ Dispatched(r) => Len(steps[r]) = 5

\* C13, amended: the steps of a dispatch run in the order RESOLVE_CONTROLLER,
\* RESOLVE_OPERATION_ID, LOAD_CONTROLLER, INSTALL_INTERCEPTOR, INVOKE, each at most
\* once and never backwards, and all five once the handler has been called: the
\* operation id is resolved before the controller is loaded, and the handler is
\* invoked only after the interceptor is installed.
C13_DispatchOrderAsCoded ==
  \A r \in Reqs :
    /\ IsPrefix(steps[r], <<"RESOLVE_CONTROLLER", "RESOLVE_OPERATION_ID", "LOAD_CONTROLLER",
                            "INSTALL_INTERCEPTOR", "INVOKE">>)
    /\ Dispatched(r) => Len(steps[r]) = 5
    /\ "INVOKE" \in StepsTaken(r) => res[r].intercepted
    /\ "LOAD_CONTROLLER" \in StepsTaken(r) => ctx[r].opID # <<>>

C13_Witness ==
  \E r \in Reqs :
    /\ pc[r] = "invoked"
    /\ steps[r] = <<"RESOLVE_CONTROLLER", "RESOLVE_OPERATION_ID", "LOAD_CONTROLLER",
                    "INSTALL_INTERCEPTOR", "INVOKE">>
    /\ res[r].intercepted

\* C14: the JSON Content-Type header is set on the response before the validator is
\* called, so before its outcome is known, and every call of the original send, a
\* rewritten payload included, found the header set.
C14_HeaderBeforeSend ==
  \A r \in Reqs :
    /\ res[r].validated > 0 => res[r].contentType = StrJsonContentType
    /\ pc[r] = "validating" => res[r].contentType = StrJsonContentType /\ res[r].sent = <<>>
    /\ \A i \in DOMAIN res[r].sent : res[r].sent[i].contentType = StrJsonContentType

C14_Witness ==
  \E r \in Reqs :
    /\ pc[r] = "sent"
    /\ ValidationFailed(r)
    /\ decision[r].strictRead = "true"
    /\ Len(res[r].sent) = 1
    /\ res[r].sent[1].statusCode = 400
    /\ res[r].sent[1].contentType = StrJsonContentType

\* the text sent in place of the payload when validation failed in strict mode
ReplacedPayload(r) ==
  JSONstringify(Obj(<< <<StrMessage, Str(StrWrongData \o processErr(decision[r].err.items))>>,
                       <<StrContent, JSONparse(OriginalSerialized(r)).value>> >>))

\* every call of the original send on r's response carried r's own payload, original
\* or replaced, at r's own status code
OwnSends(r) ==
  \A i \in DOMAIN res[r].sent :
    IF ValidationFailed(r) /\ decision[r].strictRead = "true"
      THEN res[r].sent[i].statusCode = 400 /\ Received(res[r].sent[i]) = ReplacedPayload(r)
      ELSE /\ res[r].sent[i].statusCode = call[r].statusCode
           /\ Received(res[r].sent[i]) = OriginalSerialized(r)

\* C15: with several requests in flight and the validator calling back in any order,
\* every call of the original send is made on the request's own response with the
\* request's own payload, original or replaced, and a step that changes one request's
\* response, a strict 400 included, leaves the status code, the payload and the sends
\* of every other request as they were.
C15_NoAliasing ==
  /\ [](\A r \in ConcReqs : OwnSends(r))
  /\ [][\A r \in ConcReqs, q \in ConcReqs :
          (r # q /\ res'[r] # res[r]) =>
            /\ res'[q] = res[q]
            /\ call'[q] = call[q]
            /\ pending'[q] = pending[q]
            /\ decision'[q] = decision[q] ]_vars

C15_Witness ==
  \E r \in ConcReqs, q \in ConcReqs :
    /\ r # q
    /\ pc[r] = "sent" /\ ValidationFailed(r) /\ decision[r].strictRead = "true"
    /\ res[r].sent[1].statusCode = 400
    /\ pc[q] = "sent" /\ decision[q].err = Null
    /\ call[q].statusCode = 200
    /\ res[q].sent[1].statusCode = 200
    /\ OriginalPayload(q) # OriginalPayload(r)
    /\ Received(res[q].sent[1]) = OriginalSerialized(q)

\* C16: while the validator's outcome is awaited the original send has not been
\* invoked, and only the callback ends the wait (nothing else sends the response);
\* and, the validator calling back eventually, every call of the intercepted send is
\* eventually followed by a call of the original send.
C16_EventuallySent ==
  /\ [](\A r \in Reqs : pc[r] = "validating" => res[r].sent = <<>>)
  /\ [][\A r \in Reqs : (pc[r] = "validating" /\ pc'[r] # "validating") =>
          (decision'[r].err.t # "none" /\ Len(res'[r].sent) = 1)]_vars
  /\ \A r \in Reqs : SendCalled(r) ~> (Len(res[r].sent) > 0)

\* the text sent in place of the payload for an undeclared status code in strict mode
WrongCodePayload(r) ==
  JSONstringify(Obj(<< <<StrMessage, Str(StrWrongResponseCode \o numberToString(call[r].statusCode))>> >>))

\* C17: config.strict is read when the decision is taken (in the intercepted send for
\* an undeclared status code, in the validator's callback for a failed validation),
\* and the response follows the value it has then, whatever it was when the
\* interceptor was installed; dispatch does not read it, and the controller name and
\* the operation id do not depend on it.
C17_StrictReadAtDecision ==
  /\ [][\A r \in Reqs :
          /\ (pc[r] = "idle" /\ pc'[r] # "idle") =>
               /\ decision'[r].strictRead = Unread
               /\ logged'[r] = <<>>
          /\ (pc[r] = "validating" /\ pc'[r] = "sent" /\ decision'[r].err.t = "array") =>
               decision'[r].strictRead = readStrict(strict)
          /\ (pc[r] = "invoked" /\ pc'[r] = "sent" /\ decision'[r].strictRead # Unread) =>
               decision'[r].strictRead = readStrict(strict) ]_vars
  /\ [](\A r \in Reqs :
          /\ pc[r] \in {"invoked", "validating"} => decision[r].strictRead = Unread
          /\ pc[r] # "idle" =>
               /\ ctx[r].opID = generateOpId(OasDoc, req[r].requestedSpecPath, toLowerCase(req[r].method))
               /\ ctx[r].controllerName = StrWidgetsController
          /\ (pc[r] = "sent" /\ ValidationFailed(r)) =>
               /\ decision[r].strictRead # Unread
               /\ Len(res[r].sent) = 1
               /\ IF decision[r].strictRead = "true"
                    THEN /\ res[r].sent[1].statusCode = 400
                         /\ Received(res[r].sent[1]) = ReplacedPayload(r)
                         /\ logged[r][Len(logged[r])].level = "error"
                    ELSE /\ res[r].sent[1].statusCode = call[r].statusCode
                         /\ Received(res[r].sent[1]) = OriginalSerialized(r)
                         /\ logged[r][Len(logged[r])].level = "warning"
          /\ (pc[r] = "sent" /\ ~Declared(r)) =>
               /\ decision[r].strictRead # Unread
               /\ Len(res[r].sent) = 1
               /\ res[r].sent[1].statusCode = call[r].statusCode
               /\ IF decision[r].strictRead = "true"
                    THEN /\ Received(res[r].sent[1]) = WrongCodePayload(r)
                         /\ logged[r][Len(logged[r])].level = "error"
                    ELSE /\ Received(res[r].sent[1]) = OriginalSerialized(r)
                         /\ logged[r][Len(logged[r])].level = "warning")

C17_Witness ==
  \E r \in Reqs :
    /\ pc[r] = "sent"
    /\ ValidationFailed(r)
    /\ decision[r].strictAtInstall = "false"
    /\ decision[r].strictRead = "true"
    /\ res[r].sent[1].statusCode = 400
    /\ Received(res[r].sent[1]) = ReplacedPayload(r)

\* the messages of a non-empty list of errors, in order, ". " between two of them
RECURSIVE JoinMessages(_)
JoinMessages(items) ==
  IF Len(items) = 1 THEN items[1].message
  ELSE JoinMessages(SubSeq(items, 1, Len(items) - 1)) \o <<".", " ">> \o items[Len(items)].message

\* the message member of the text of {message, content}, as far as the content member
MessageSent(r) ==
  SubSeq(Received(res[r].sent[1]).s, 13, 12 + Len(logged[r][Len(logged[r])].msg))

\* C18: after a failed validation with errors e1..en, the message that is logged, and
\* sent in strict mode, is exactly "Wrong data in the response. " followed by
\* e1.message and by ". " and ei.message for each further error, in order.
C18_ValidationMessage ==
  \A r \in Reqs :
    (pc[r] = "sent" /\ ValidationFailed(r)) =>
      /\ Len(logged[r]) = 1
      /\ logged[r][1].msg = StrWrongData \o JoinMessages(decision[r].err.items)
      /\ decision[r].strictRead = "true" =>
           /\ StartsWith(Received(res[r].sent[1]).s, <<"{">> \o jsonQuote(StrMessage) \o <<":", "\"">>)
           /\ MessageSent(r) = StrWrongData \o JoinMessages(decision[r].err.items)

C18_Witness ==
  \E r \in Reqs :
    /\ pc[r] = "sent"
    /\ decision[r].err = ErrArray(<< [message |-> <<"n", "o", " ", "i", "d">>],
                                     [message |-> <<"b", "a", "d", " ", "i", "d">>] >>)
    /\ decision[r].strictRead = "true"
    /\ logged[r][1].msg = StrWrongData \o <<"n", "o", " ", "i", "d", ".", " ", "b", "a", "d", " ", "i", "d">>

\* C19: status declared with a JSON schema and validation without error, strict or
\* not: the original send received exactly the text the interceptor serialized the
\* controller's payload to, at the status code the controller set, and nothing was
\* logged.
C19_NoErrorPassThrough ==
  \A r \in Reqs :
    (pc[r] = "sent" /\ HasJsonSchema(r) /\ decision[r].err = Null) =>
      /\ Len(res[r].sent) = 1
      /\ Len(res[r].sent[1].args) = 1
      /\ Received(res[r].sent[1]).t = "string"
      /\ Received(res[r].sent[1]) = OriginalSerialized(r)
      /\ res[r].sent[1].statusCode = call[r].statusCode
      /\ decision[r].strictRead = Unread
      /\ logged[r] = <<>>

C19_Witness ==
  \E r \in Reqs :
    /\ pc[r] = "sent" /\ HasJsonSchema(r) /\ decision[r].err = Null
    /\ strict
    /\ OriginalPayload(r) = Obj(<< <<StrId, Str(StrX)>> >>)
    /\ Received(res[r].sent[1]) =
         Str(<<"{", "\"", "i", "d", "\"", ":", "\"", "x", "\"", "}">>)
    /\ res[r].sent[1].statusCode = 200

====
